---- MODULE Spec2Model ----
(***************************************************************************)
(* The session controller of client/src/components/WebcamCapture.jsx: the  *)
(* start/end handlers, the sampling interval with its in-flight guard, the *)
(* application of an analysis result, the voice debouncer, the no-person   *)
(* tolerance counter, the skeleton overlay and the auto-stop.              *)
(*                                                                         *)
(* One step of the model is one run-to-completion piece of JavaScript: the *)
(* part of a handler between two awaits.  React commits the state updates  *)
(* of such a piece and runs the effects whose dependencies changed before  *)
(* the next timer or promise callback runs, so a step also re-arms or      *)
(* disarms the sampling interval.                                          *)
(***************************************************************************)
EXTENDS Integers, Sequences, FiniteSets, TLC

\* ------------------------------------------------------------------ bounds
\* Largest rep count the analysis service reports.
MaxReps == 2
\* Largest target rep count the parent passes in (0: no target).
MaxTarget == 2
\* Most startSessionAPI / endSessionAPI calls awaited at once.
MaxPending == 2
\* Most tick callbacks suspended at an await at once.
MaxInFlight == 2
\* The no-person counter is followed up to this value.
MaxNoPose == 3
\* The elapsed-seconds counter is followed up to this value.
MaxSeconds == 1
\* Date.now() is followed for this many clock steps.
MaxNow == 2

\* ------------------------------------------------------- program constants
\* if (noPoseCountRef.current > 2)
NoPoseTolerance == 2
\* if (now - lastVoiceTimeRef.current > 5000); one clock step of the model
\* is this long, so a reading exactly 5000 ms after the last one exists.
VoiceGapMs == 5000

\* --------------------------------------------------------------- JS values
\* A field the result does not carry (undefined), for numbers and strings.
NoNum == -1
Undefined == "<undefined>"
\* data.landmarks: an array of len elements of which those at the indices
\* in nulls are null; NoLandmarks when the field is missing or no array.
NoLandmarks == [len |-> NoNum, nulls |-> {}]
Landmarks(len, nulls) == [len |-> len, nulls |-> nulls]

EmptyData ==
    [reps |-> NoNum, count |-> NoNum, stage |-> Undefined, angle |-> NoNum,
     warning |-> Undefined, feedback |-> Undefined, guidance |-> Undefined,
     landmarks |-> NoLandmarks, event |-> Undefined]

\* Utterances.  A template literal is kept as its template and its number,
\* so two messages are equal exactly when their strings are.
NoMessage == [t |-> "none", n |-> 0, s |-> ""]
Text(s) == [t |-> "text", n |-> 0, s |-> s]
MoveIntoFrame == Text("Please move into the camera frame")
RepCompleted(count) == [t |-> "rep", n |-> count, s |-> "Rep N completed"]
GreatJob(tReps) == [t |-> "great", n |-> tReps, s |-> "Great job! You completed N reps."]

Tracking == "Tracking..."
StandInFrame == "Please stand fully in the camera frame"
ServerBusy == "Server busy, retrying..."

\* ------------------------------------------------------------- pure pieces
\* data.warning?.toLowerCase().includes("no_person")
ToLowerCase(w) ==
    CASE w = "NO_PERSON" -> "no_person"
      [] w = "No_Person_Detected" -> "no_person_detected"
      [] OTHER -> w
IsNoPerson(w) ==
    /\ w # Undefined
    /\ ToLowerCase(w) \in {"no_person", "no_person_detected"}

\* typeof data.reps === "number" ? data.reps
\*   : typeof data.count === "number" ? data.count : reps
\* where reps is the value the interval callback closed over.
NewReps(data, closureReps) ==
    IF data.reps # NoNum THEN data.reps
    ELSE IF data.count # NoNum THEN data.count
    ELSE closureReps

\* data.x ?? fallback, where NoFallbackStr is data.x alone.
NoFallbackStr(x, fallback) == x
OrElseStr(x, fallback) == IF x = Undefined THEN fallback ELSE x
OrElseNum(x, fallback) == IF x = NoNum THEN fallback ELSE x

\* handleVoiceOutput(data, count) at clock reading t, on the debouncer's
\* refs v = [lastSpoken, lastVoiceTime, stage, reps]: the refs afterwards
\* and the utterances passed to speechSynthesis.speak.
VoiceNoPerson(data, t, v) ==
    IF IsNoPerson(data.warning) /\ (t - v.lastVoiceTime) * VoiceGapMs > VoiceGapMs
    THEN MoveIntoFrame ELSE NoMessage

\* Line 59, where VoiceRepAnyEvent leaves out the comparison with repsRef.
VoiceRepAnyEvent(data, count, v) == data.event = "rep_completed"
VoiceRepDue(data, count, v) == data.event = "rep_completed" /\ count > v.reps

VoiceStageDue(data, v) ==
    /\ data.stage # Undefined /\ data.stage # ""
    /\ data.stage # v.stage
    /\ data.stage # "none"

SpeakAnyMessage(message, v) == message # NoMessage
SpeakDue(message, v) == message # NoMessage /\ message # v.lastSpoken

\* The message after the three checks of lines 53-67, each assigning over
\* the one before; VoiceFirstWins keeps the first assignment instead.
VoiceFirstWins(data, count, t, v) ==
    IF VoiceNoPerson(data, t, v) # NoMessage THEN VoiceNoPerson(data, t, v)
    ELSE IF VoiceRepDue(data, count, v) THEN RepCompleted(count)
    ELSE IF VoiceStageDue(data, v) THEN Text(data.stage)
    ELSE NoMessage
VoiceCandidate(data, count, t, v) ==
    LET m1 == VoiceNoPerson(data, t, v)
        m2 == IF VoiceRepDue(data, count, v) THEN RepCompleted(count) ELSE m1
    IN  IF VoiceStageDue(data, v) THEN Text(data.stage) ELSE m2

handleVoiceOutput(data, count, t, v) ==
    LET message == VoiceCandidate(data, count, t, v)
        speak == SpeakDue(message, v)
    IN  [refs |->
            [lastSpoken |-> IF speak THEN message ELSE v.lastSpoken,
             lastVoiceTime |-> IF speak THEN t ELSE v.lastVoiceTime,
             stage |-> IF VoiceStageDue(data, v) THEN data.stage ELSE v.stage,
             reps |-> IF VoiceRepDue(data, count, v) THEN count ELSE v.reps],
         said |-> IF speak THEN <<[by |-> "voice", msg |-> message]>>
                  ELSE <<>>]

\* drawSkeleton(landmarks, canvas): what is on the canvas afterwards, and
\* whether the call threw (p.x of a null element).
Connections ==
    {<<11, 13>>, <<13, 15>>, <<12, 14>>, <<14, 16>>,
     <<11, 12>>, <<11, 23>>, <<12, 24>>, <<23, 24>>}
ClearCanvas == [points |-> {}, segs |-> {}]
Present(lm, i) == i < lm.len /\ i \notin lm.nulls
FirstNull(lm) ==
    LET ns == {i \in lm.nulls : i < lm.len}
    IN  IF ns = {} THEN lm.len ELSE CHOOSE i \in ns : \A j \in ns : i <= j
drawSkeleton(lm) ==
    LET stop == FirstNull(lm)
    IN  IF stop < lm.len
        THEN [canvas |-> [points |-> 0 .. (stop - 1), segs |-> {}],
              threw |-> TRUE]
        ELSE [canvas |->
                 [points |-> 0 .. (lm.len - 1),
                  segs |-> {c \in Connections :
                              Present(lm, c[1]) /\ Present(lm, c[2])}],
              threw |-> FALSE]

\* if (!webcamRef.current || isProcessingRef.current) return;
\* const sourceCanvas = webcamRef.current.getCanvas(); if (!sourceCanvas) return;
TickNeverBusy(frameReady, processing) == ~frameReady
TickDropped(frameReady, processing) == ~frameReady \/ processing

\* The auto-stop branch, lines 151-156, with the entry of handleEnd, lines
\* 78-79: whether the completion message is spoken, whether handleEnd gets
\* past its autoEndedRef check to call endSessionAPI, and whether the tick
\* awaits handleEnd before its finally.
AutoStopUnguarded(tReps, newReps, ended) ==
    LET due == tReps > 0 /\ newReps >= tReps
    IN  [speak |-> due, end |-> due /\ ~ended, awaited |-> FALSE]
AutoStop(tReps, newReps, ended) ==
    LET due == tReps > 0 /\ newReps >= tReps /\ ~ended
    IN  [speak |-> due, end |-> due /\ ~ended, awaited |-> due]
NoAutoStop == [speak |-> FALSE, end |-> FALSE, awaited |-> FALSE]

\* ------------------------------------------------------------------- state
VARIABLES
    \* props
    targetReps,
    \* useState
    sessionStarted, seconds, reps, stage, angle, feedback, isValid,
    lastGuidance, error,
    \* useRef
    isProcessingRef, noPoseCountRef, autoEndedRef,
    lastSpokenRef, lastVoiceTimeRef, stageRef, repsRef,
    \* the overlay canvas
    canvas,
    \* Date.now()
    now,
    \* the sampling interval of the analysis effect: whether it is armed, and
    \* the reps and targetReps its callback closed over
    loop,
    \* the tick callbacks suspended at an await, oldest first: pc is
    \* "analyze" (line 112) or "end" (line 155, inside handleEnd at line 82)
    ticks,
    \* handleStart calls awaiting startSessionAPI, and button-click handleEnd
    \* calls awaiting endSessionAPI
    startPending, endPending,
    \* observation: the utterances passed to speechSynthesis.speak by the last
    \* step, each with the place that spoke it ("voice": handleVoiceOutput,
    \* "autostop": line 154); the last utterance before them; the last
    \* utterance of handleVoiceOutput before them
    spoken, heard, voiced,
    \* observation, per session (since the last reset by handleStart):
    \* completion messages spoken; the latest reported rep count while the
    \* reported counts were non-decreasing (NoNum: none yet, Broken: not
    \* non-decreasing, or a response of an earlier session was applied);
    \* consecutive applied no-person results; the number of the last
    \* "Rep N completed" spoken (0: none)
    completions, lastReported, noPersonRun, lastAnnounced,
    \* observation: endSessionAPI calls made while the session is started,
    \* since sessionStarted last became true
    endCalls

vars ==
    <<targetReps, sessionStarted, seconds, reps, stage, angle, feedback,
      isValid, lastGuidance, error, isProcessingRef, noPoseCountRef,
      autoEndedRef, lastSpokenRef, lastVoiceTimeRef, stageRef, repsRef,
      canvas, now, loop, ticks, startPending, endPending, spoken, heard,
      voiced, completions, lastReported, noPersonRun, lastAnnounced,
      endCalls>>

Broken == NoNum - 1

display == <<reps, stage, angle, feedback, isValid, lastGuidance>>
voiceRefs == <<lastSpokenRef, lastVoiceTimeRef, stageRef, repsRef>>
perSession == <<completions, lastReported, noPersonRun, lastAnnounced>>
observed == <<perSession, endCalls>>

Disarmed == [armed |-> FALSE, reps |-> 0, targetReps |-> 0]

Init ==
    /\ targetReps \in 0 .. MaxTarget
    /\ sessionStarted = FALSE
    /\ seconds = 0
    /\ reps = 0
    /\ stage = "down"
    /\ angle = 0
    /\ feedback = Tracking
    /\ isValid = "null"
    /\ lastGuidance = ""
    /\ error = ""
    /\ isProcessingRef = FALSE
    /\ noPoseCountRef = 0
    /\ autoEndedRef = FALSE
    /\ lastSpokenRef = NoMessage
    /\ lastVoiceTimeRef = 0
    /\ stageRef = "down"
    /\ repsRef = 0
    /\ canvas = ClearCanvas
    /\ now = 0
    /\ loop = Disarmed
    /\ ticks = <<>>
    /\ startPending = 0
    /\ endPending = 0
    /\ spoken = <<>>
    /\ heard = NoMessage
    /\ voiced = NoMessage
    /\ completions = 0
    /\ lastReported = NoNum
    /\ noPersonRun = 0
    /\ lastAnnounced = 0
    /\ endCalls = 0

\* ----------------------------------------------------------------- helpers
\* One more endSessionAPI call observed; calls beyond the second are not
\* told apart.
Called(n) == IF n < 2 THEN n + 1 ELSE n

RemoveAt(s, i) == SubSeq(s, 1, i - 1) \o SubSeq(s, i + 1, Len(s))

\* The last utterance so far.
LastHeard == IF spoken = <<>> THEN heard ELSE spoken[Len(spoken)].msg
LastVoiced ==
    IF spoken # <<>> /\ spoken[1].by = "voice" THEN spoken[1].msg ELSE voiced
Say(msgs) == spoken' = msgs /\ heard' = LastHeard /\ voiced' = LastVoiced

\* The analysis effect, deps [sessionStarted, targetReps]: when one of them
\* changes the interval is cleared and, if the session is started, set again
\* with a callback closing over this render's reps and targetReps.
AnalysisEffect ==
    loop' =
        IF sessionStarted' = sessionStarted /\ targetReps' = targetReps
        THEN loop
        ELSE IF sessionStarted'
        THEN [armed |-> TRUE, reps |-> reps', targetReps |-> targetReps']
        ELSE Disarmed

\* ------------------------------------------------------------------ actions
\* The parent re-renders the component with another targetReps.  The target
\* is supplied at start: it changes only while no session is started.
SetTargetReps ==
    /\ ~sessionStarted
    /\ \E t \in 0 .. MaxTarget : t # targetReps /\ targetReps' = t
    /\ Say(<<>>)
    /\ UNCHANGED <<sessionStarted, seconds, display, error, isProcessingRef,
                   noPoseCountRef, autoEndedRef, voiceRefs, canvas, now,
                   ticks, startPending, endPending, observed>>
    /\ AnalysisEffect

\* The timer effect: setInterval(() => setSeconds((s) => s + 1), 1000),
\* armed while sessionStarted.
SecondTick ==
    /\ sessionStarted
    /\ seconds < MaxSeconds
    /\ seconds' = seconds + 1
    /\ Say(<<>>)
    /\ UNCHANGED <<targetReps, sessionStarted, display, error,
                   isProcessingRef, noPoseCountRef, autoEndedRef, voiceRefs,
                   canvas, now, loop, ticks, startPending, endPending,
                   observed>>

\* Time passes: the next Date.now() is one clock step later.
ClockAdvance ==
    /\ now < MaxNow
    /\ now' = now + 1
    /\ Say(<<>>)
    /\ UNCHANGED <<targetReps, sessionStarted, seconds, display, error,
                   isProcessingRef, noPoseCountRef, autoEndedRef, voiceRefs,
                   canvas, loop, ticks, startPending, endPending, observed>>

\* The start button (rendered while !sessionStarted) is clicked: handleStart
\* runs up to await startSessionAPI(targetReps).
StartClick ==
    /\ ~sessionStarted
    /\ startPending < MaxPending
    /\ startPending' = startPending + 1
    /\ Say(<<>>)
    /\ UNCHANGED <<targetReps, sessionStarted, seconds, display, error,
                   isProcessingRef, noPoseCountRef, autoEndedRef, voiceRefs,
                   canvas, now, loop, ticks, endPending, observed>>

\* handleStart after the await, lines 176-182.  A session of the
\* observation starts here: its counters restart and the requests still
\* awaited belong to an earlier session.
handleStartResume ==
    /\ startPending > 0
    /\ startPending' = startPending - 1
    /\ seconds' = 0
    /\ reps' = 0
    /\ repsRef' = 0
    /\ stage' = "down"
    /\ stageRef' = "down"
    /\ autoEndedRef' = FALSE
    /\ sessionStarted' = TRUE
    /\ ticks' = [i \in DOMAIN ticks |-> [ticks[i] EXCEPT !.stale = TRUE]]
    /\ completions' = 0
    /\ lastReported' = NoNum
    /\ noPersonRun' = 0
    /\ lastAnnounced' = 0
    /\ endCalls' = IF sessionStarted THEN endCalls ELSE 0
    /\ Say(<<>>)
    /\ UNCHANGED <<targetReps, angle, feedback, isValid, lastGuidance, error,
                   isProcessingRef, noPoseCountRef, lastSpokenRef,
                   lastVoiceTimeRef, canvas, now, endPending>>
    /\ AnalysisEffect

\* startSessionAPI resolves.
StartSessionResolved == handleStartResume

\* A handleStart that lets the rejection escape: nothing after the await runs.
StartRejectedAborts ==
    /\ startPending > 0
    /\ startPending' = startPending - 1
    /\ Say(<<>>)
    /\ UNCHANGED <<targetReps, sessionStarted, seconds, display, error,
                   isProcessingRef, noPoseCountRef, autoEndedRef, voiceRefs,
                   canvas, now, loop, ticks, endPending, observed>>

\* startSessionAPI rejects: console.warn, then the same lines 176-182.
StartSessionRejected == handleStartResume

\* The end button (rendered while sessionStarted) is clicked: handleEnd runs
\* up to await endSessionAPI(), or returns at once when autoEndedRef is set.
EndClick ==
    /\ sessionStarted
    /\ IF autoEndedRef
       THEN UNCHANGED <<autoEndedRef, endPending, endCalls>>
       ELSE /\ endPending < MaxPending
            /\ autoEndedRef' = TRUE
            /\ endPending' = endPending + 1
            /\ endCalls' = Called(endCalls)
    /\ Say(<<>>)
    /\ UNCHANGED <<targetReps, sessionStarted, seconds, display, error,
                   isProcessingRef, noPoseCountRef, voiceRefs, canvas, now,
                   loop, ticks, startPending, perSession>>

\* handleEnd after the await, line 87, for a call made by the button.
handleEndResume ==
    /\ endPending > 0
    /\ endPending' = endPending - 1
    /\ sessionStarted' = FALSE
    /\ endCalls' = 0
    /\ Say(<<>>)
    /\ UNCHANGED <<targetReps, seconds, display, error, isProcessingRef,
                   noPoseCountRef, autoEndedRef, voiceRefs, canvas, now,
                   ticks, startPending, perSession>>
    /\ AnalysisEffect

\* endSessionAPI resolves.
EndSessionResolved == handleEndResume

\* endSessionAPI rejects: console.warn, then the same line 87.
EndSessionRejected == handleEndResume

\* The sampling interval fires, lines 94-112: the tick is dropped when no
\* frame is available or a request is in flight; otherwise the guard is set
\* and analyzeFrame is called.
Tick ==
    /\ loop.armed
    /\ \E frameReady \in BOOLEAN :
          IF TickDropped(frameReady, isProcessingRef)
          THEN UNCHANGED <<isProcessingRef, ticks>>
          ELSE /\ Len(ticks) < MaxInFlight
               /\ isProcessingRef' = TRUE
               /\ ticks' = Append(ticks,
                      [pc |-> "analyze", reps |-> loop.reps,
                       targetReps |-> loop.targetReps, stale |-> FALSE])
    /\ Say(<<>>)
    /\ UNCHANGED <<targetReps, sessionStarted, seconds, display, error,
                   noPoseCountRef, autoEndedRef, voiceRefs, canvas, now,
                   loop, startPending, endPending, observed>>

\* finally { isProcessingRef.current = false } of the i-th suspended tick.
Finally(i) ==
    /\ isProcessingRef' = FALSE
    /\ ticks' = RemoveAt(ticks, i)

\* A catch block that also restarts the no-person count.
AnalyzeFailedResetsCount ==
    \E i \in DOMAIN ticks :
        /\ ticks[i].pc = "analyze"
        /\ error' = ServerBusy
        /\ noPoseCountRef' = 0
        /\ Finally(i)
        /\ Say(<<>>)
        /\ UNCHANGED <<targetReps, sessionStarted, seconds, display,
                       autoEndedRef, voiceRefs, canvas, now, loop,
                       startPending, endPending, observed>>

\* analyzeFrame rejects: catch and finally, lines 157-162.
AnalyzeFailed ==
    \E i \in DOMAIN ticks :
        /\ ticks[i].pc = "analyze"
        /\ error' = ServerBusy
        /\ Finally(i)
        /\ Say(<<>>)
        /\ UNCHANGED <<targetReps, sessionStarted, seconds, display,
                       noPoseCountRef, autoEndedRef, voiceRefs, canvas, now,
                       loop, startPending, endPending, observed>>

\* analyzeFrame resolves with nothing: if (!data) return, then finally.
AnalyzeEmpty ==
    \E i \in DOMAIN ticks :
        /\ ticks[i].pc = "analyze"
        /\ Finally(i)
        /\ Say(<<>>)
        /\ UNCHANGED <<targetReps, sessionStarted, seconds, display, error,
                       noPoseCountRef, autoEndedRef, voiceRefs, canvas, now,
                       loop, startPending, endPending, observed>>

\* The rep count a result reports: reps, else count, else none.
Reported(data) == IF data.reps # NoNum THEN data.reps ELSE data.count

\* analyzeFrame resolves with data for the i-th suspended tick: lines
\* 113-156 up to the await of handleEnd, or to the end with its finally.
AnalyzeResolved(i, data) ==
    LET c == ticks[i]
        newReps == NewReps(data, c.reps)
        noPerson == IsNoPerson(data.warning)
        count == noPoseCountRef + 1
        drawn == IF data.landmarks # NoLandmarks
                 THEN drawSkeleton(data.landmarks)
                 ELSE [canvas |-> ClearCanvas, threw |-> FALSE]
        v == [lastSpoken |-> lastSpokenRef, lastVoiceTime |-> lastVoiceTimeRef,
              stage |-> stageRef, reps |-> repsRef]
        \* line 149 is reached
        reached == ~noPerson /\ ~drawn.threw
        voice == IF reached THEN handleVoiceOutput(data, newReps, now, v)
                 ELSE [refs |-> v, said |-> <<>>]
        a == IF reached THEN AutoStop(c.targetReps, newReps, autoEndedRef)
             ELSE NoAutoStop
        rc == Reported(data)
    IN  /\ c.pc = "analyze"
        /\ noPerson => noPoseCountRef < MaxNoPose
        /\ reps' = newReps
        /\ stage' = OrElseStr(data.stage, "none")
        /\ angle' = OrElseNum(data.angle, 0)
        /\ lastGuidance' = OrElseStr(data.guidance, "")
        /\ error' = IF ~noPerson /\ drawn.threw THEN ServerBusy ELSE ""
        /\ noPoseCountRef' = IF noPerson THEN count ELSE 0
        /\ feedback' =
              IF noPerson
              THEN IF count > NoPoseTolerance THEN StandInFrame ELSE feedback
              ELSE OrElseStr(data.feedback, Tracking)
        /\ isValid' =
              IF noPerson
              THEN IF count > NoPoseTolerance THEN "false" ELSE isValid
              ELSE "true"
        /\ canvas' = IF noPerson THEN canvas ELSE drawn.canvas
        /\ lastSpokenRef' = voice.refs.lastSpoken
        /\ lastVoiceTimeRef' = voice.refs.lastVoiceTime
        /\ stageRef' = voice.refs.stage
        /\ repsRef' = voice.refs.reps
        /\ Say(voice.said \o
                 (IF a.speak
                  THEN <<[by |-> "autostop", msg |-> GreatJob(c.targetReps)]>>
                  ELSE <<>>))
        /\ autoEndedRef' = (autoEndedRef \/ a.end)
        /\ IF a.end /\ a.awaited
           THEN /\ ticks' = [ticks EXCEPT ![i].pc = "end"]
                /\ UNCHANGED <<isProcessingRef, endPending>>
           ELSE /\ Finally(i)
                /\ endPending' = IF a.end THEN endPending + 1 ELSE endPending
        /\ completions' = IF a.speak /\ completions < 2
                          THEN completions + 1 ELSE completions
        /\ lastReported' =
              IF c.stale \/ ~sessionStarted \/ lastReported = Broken
              THEN Broken
              ELSE IF rc = NoNum THEN lastReported
              ELSE IF rc < lastReported THEN Broken
              ELSE rc
        /\ noPersonRun' = IF noPerson THEN noPersonRun + 1 ELSE 0
        /\ lastAnnounced' =
              IF voice.said # <<>> /\ voice.said[1].msg.t = "rep"
              THEN voice.said[1].msg.n ELSE lastAnnounced
        /\ endCalls' = IF a.end /\ sessionStarted
                       THEN Called(endCalls) ELSE endCalls
        /\ UNCHANGED <<targetReps, sessionStarted, seconds, now, loop,
                       startPending>>

\* handleEnd after the await, line 87, for the call made by the auto-stop
\* of the i-th suspended tick; the tick then ends with its finally.
AutoEndResume(i) ==
    /\ ticks[i].pc = "end"
    /\ sessionStarted' = FALSE
    /\ endCalls' = 0
    /\ Finally(i)
    /\ Say(<<>>)
    /\ UNCHANGED <<targetReps, seconds, display, error, noPoseCountRef,
                   autoEndedRef, voiceRefs, canvas, now, startPending,
                   endPending, perSession>>
    /\ AnalysisEffect

AutoEndResolved == \E i \in DOMAIN ticks : AutoEndResume(i)
AutoEndRejected == \E i \in DOMAIN ticks : AutoEndResume(i)

\* ------------------------------------------------------------ input sets
NumOpt == {NoNum} \cup (0 .. MaxReps)

\* Results that differ in their counts and in the no-person warning.
CountPairs ==
    {p \in NumOpt \X NumOpt : p[1] = NoNum \/ p[2] \in {NoNum, 0}}
CountData ==
    {[EmptyData EXCEPT !.reps = p[1], !.count = p[2], !.warning = w] :
        p \in CountPairs, w \in {Undefined, "no_person"}}

AnalyzeCount == \E i \in DOMAIN ticks, d \in CountData : AnalyzeResolved(i, d)

\* Results that differ in what the debouncer reads: the count, the stage and
\* the event.
VoiceData ==
    {[EmptyData EXCEPT !.reps = r, !.stage = g, !.event = e] :
        r \in NumOpt, g \in {Undefined, "none", "up", "down"},
        e \in {Undefined, "rep_completed"}}

AnalyzeVoice == \E i \in DOMAIN ticks, d \in VoiceData : AnalyzeResolved(i, d)

\* Results that differ in what decides the no-person prompt: the warning and
\* a stage change, with or without a count that reaches the target.
PromptData ==
    {[EmptyData EXCEPT !.warning = w, !.stage = g, !.reps = r] :
        w \in {Undefined, "no_person"}, g \in {Undefined, "up"},
        r \in {NoNum, MaxReps}}

AnalyzePrompt ==
    \E i \in DOMAIN ticks, d \in PromptData : AnalyzeResolved(i, d)

\* Results that differ in their landmarks, the no-person warning and the
\* texts to display: no array, an empty one, a full pose of 25 points, one
\* cut short before index 13, and a full one whose element 13 is null.
LandmarkInputs ==
    {NoLandmarks, Landmarks(0, {}), Landmarks(25, {}), Landmarks(13, {}),
     Landmarks(25, {13})}
OverlayData ==
    {[EmptyData EXCEPT !.landmarks = lm, !.warning = w, !.reps = r[1],
                       !.angle = r[1], !.feedback = r[2], !.guidance = r[2]] :
        lm \in LandmarkInputs, w \in {Undefined, "NO_PERSON", "low_light"},
        r \in {<<NoNum, Undefined>>, <<MaxReps, "Keep your back straight">>}}

AnalyzeOverlay ==
    \E i \in DOMAIN ticks, d \in OverlayData : AnalyzeResolved(i, d)

\* ---------------------------------------------------------- specifications
\* The parent changes the target while the component is idle: no session
\* started and no call awaited.
SetTargetRepsIdle ==
    /\ startPending = 0 /\ endPending = 0 /\ ticks = <<>>
    /\ SetTargetReps

\* The handlers on results that differ in their counts, with a second click
\* on the start button possible while the first is pending.
Next ==
    \/ SetTargetRepsIdle
    \/ StartClick
    \/ StartSessionResolved
    \/ StartSessionRejected
    \/ EndClick
    \/ EndSessionResolved
    \/ EndSessionRejected
    \/ Tick
    \/ AnalyzeFailed
    \/ AnalyzeEmpty
    \/ AnalyzeCount
    \/ AutoEndResolved
    \/ AutoEndRejected

Spec == Init /\ [][Next]_vars

\* ------------------------------------------------------------------ claims
\* The analyzeFrame requests not yet resolved.
InFlight == {i \in DOMAIN ticks : ticks[i].pc = "analyze"}

\* C1: at most one analyzeFrame request is in flight in every reachable
\* state, and while one is in flight the guard that makes a tick drop is set.
C1_AtMostOneInFlight ==
    /\ Cardinality(InFlight) <= 1
    /\ InFlight # {} => isProcessingRef

\* C1 witness: the interval was re-armed by a later session while the
\* request of an earlier session is still in flight.
C1_Witness ==
    /\ loop.armed
    /\ \E i \in InFlight : ticks[i].stale

\* C2: the completion message is spoken, and handleEnd invoked by the
\* auto-stop branch, at most once between one start and the next.
C2_AutoStopOncePerSession == completions <= 1

\* C2 witness: the auto-stop has fired in this session and its end call has
\* not completed.
C2_Witness ==
    /\ completions = 1
    /\ sessionStarted
    /\ \E i \in DOMAIN ticks : ticks[i].pc = "end" /\ ~ticks[i].stale

\* C3: while the rep counts reported in a session are non-decreasing, the
\* displayed rep count equals the latest reported one.
C3_RepsFollowReported ==
    (sessionStarted /\ lastReported \notin {NoNum, Broken})
        => reps = lastReported

\* C4: a result of the running session that is the first to bring the rep
\* count to the positive target, the session not being ended by the button,
\* makes that same step call endSessionAPI, whatever else it carries.
C4_TargetEndsSession ==
    [][\A i \in DOMAIN ticks : \A d \in CountData :
          ( /\ AnalyzeResolved(i, d)
            /\ sessionStarted /\ ~ticks[i].stale
            /\ ~autoEndedRef /\ endPending = 0 /\ completions = 0
            /\ ticks[i].targetReps > 0
            /\ reps < ticks[i].targetReps
            /\ reps' >= ticks[i].targetReps )
          => /\ i \in DOMAIN ticks' /\ ticks'[i].pc = "end"
             /\ autoEndedRef'
             /\ completions' = 1]_vars

\* C5: a response applied while sessionStarted is false changes none of the
\* derived state, the overlay and the debouncer's refs, and speaks nothing.
C5_LateResponseIgnored ==
    [][\A i \in DOMAIN ticks : \A d \in CountData :
          (~sessionStarted /\ AnalyzeResolved(i, d))
          => /\ UNCHANGED <<display, noPoseCountRef, canvas, voiceRefs>>
             /\ spoken' = <<>>]_vars

\* C6: a no-person result changes validity and feedback only when it is at
\* least the third consecutive no-person result applied in its session.
C6_InvalidFromThirdMiss ==
    [][\A i \in DOMAIN ticks : \A d \in CountData :
          ( /\ AnalyzeResolved(i, d)
            /\ IsNoPerson(d.warning)
            /\ noPersonRun' <= NoPoseTolerance )
          => UNCHANGED <<isValid, feedback>>]_vars

\* C7: a failed analyzeFrame call sets the error message and releases the
\* guard, and changes nothing else; nothing is spoken.
C7_FailureOnlySetsError ==
    [][AnalyzeFailed
          => /\ error' = ServerBusy
             /\ isProcessingRef' = FALSE
             /\ spoken' = <<>>
             /\ UNCHANGED <<display, noPoseCountRef, canvas, voiceRefs,
                            sessionStarted, seconds, autoEndedRef, loop,
                            targetReps, startPending, endPending>>]_vars

\* C7 witness: a call has failed in a running session that had counted
\* reps, no-person results and seconds and drawn a skeleton, which are all
\* still there.  (An error message left by a throwing drawSkeleton comes
\* with a no-person counter of 0.)
C7_Witness ==
    /\ error = ServerBusy
    /\ sessionStarted
    /\ reps > 0
    /\ noPoseCountRef > 0
    /\ canvas # ClearCanvas
    /\ seconds > 0
    /\ ~isProcessingRef

\* C10: handleStart leaves every per-session counter at its initial value.
C10_StartResetsCounters ==
    [][handleStartResume
          => /\ seconds' = 0
             /\ reps' = 0
             /\ noPoseCountRef' = 0
             /\ autoEndedRef' = FALSE
             /\ repsRef' = 0
             /\ stageRef' = "down"]_vars

\* The start button clicked while no earlier click is awaiting its
\* startSessionAPI call.
StartOnce == startPending = 0 /\ StartClick

\* The same handlers on results that exercise the voice debouncer, with the
\* clock running, a fixed positive target and no second click on the start
\* button while the first is pending.
NextVoice ==
    \/ ClockAdvance
    \/ StartOnce
    \/ StartSessionResolved
    \/ StartSessionRejected
    \/ EndClick
    \/ EndSessionResolved
    \/ EndSessionRejected
    \/ Tick
    \/ AnalyzeFailed
    \/ AnalyzeEmpty
    \/ AnalyzeVoice
    \/ AutoEndResolved
    \/ AutoEndRejected

InitVoice == Init /\ targetReps = MaxTarget

SpecVoice == InitVoice /\ [][NextVoice]_vars

\* The same handlers on results that exercise the overlay and the texts, with
\* the elapsed-seconds timer running, one target throughout and no second
\* click on the start button while the first is pending.
NextOverlay ==
    \/ SecondTick
    \/ StartOnce
    \/ StartSessionResolved
    \/ StartSessionRejected
    \/ EndClick
    \/ EndSessionResolved
    \/ EndSessionRejected
    \/ Tick
    \/ AnalyzeFailed
    \/ AnalyzeEmpty
    \/ AnalyzeOverlay
    \/ AutoEndResolved
    \/ AutoEndRejected

SpecOverlay == Init /\ [][NextOverlay]_vars

\* C8 as stated: no utterance passed to speechSynthesis.speak equals the
\* utterance passed just before it.
C8_NoRepeatedUtterance ==
    /\ spoken # <<>> => spoken[1].msg # heard
    /\ Len(spoken) = 2 => spoken[2].msg # spoken[1].msg

\* C8 amended: no utterance of handleVoiceOutput equals the utterance
\* handleVoiceOutput made just before it.
C8_DebouncerNeverRepeats ==
    (spoken # <<>> /\ spoken[1].by = "voice") => spoken[1].msg # voiced

\* C8 witness: handleVoiceOutput speaks for at least the second time, in a
\* later session than the one it first spoke in.
C8_Witness ==
    /\ spoken # <<>>
    /\ spoken[1].by = "voice"
    /\ voiced # NoMessage
    /\ voiced.t = "text"
    /\ stageRef = spoken[1].msg.s
    /\ heard.t = "great"

\* C9: after a result without landmark points is applied the overlay is
\* clear.
C9_NoLandmarksClearsOverlay ==
    [][\A i \in DOMAIN ticks : \A d \in OverlayData :
          (AnalyzeResolved(i, d) /\ d.landmarks = NoLandmarks)
          => canvas' = ClearCanvas]_vars

\* C11: a rejected startSessionAPI still starts the session, with the elapsed
\* seconds, the rep count and the debouncer's rep count back at 0; a rejected
\* endSessionAPI, awaited for the button or for the auto-stop, still ends it;
\* none of them touches the error message.
C11_ServiceFailureNeverBlocks ==
    [][/\ StartSessionRejected
            => /\ sessionStarted'
               /\ seconds' = 0 /\ reps' = 0 /\ repsRef' = 0
               /\ ~autoEndedRef'
               /\ error' = error
       /\ (EndSessionRejected \/ AutoEndRejected)
            => /\ ~sessionStarted'
               /\ ~loop'.armed
               /\ error' = error]_vars

\* C11 witness: a session started after an earlier one that had shown the
\* error message and whose request is still in flight; the counters are at 0
\* and the message is still there.
C11_Witness ==
    /\ sessionStarted
    /\ seconds = 0 /\ reps = 0 /\ repsRef = 0
    /\ error = ServerBusy
    /\ loop.armed
    /\ \E i \in DOMAIN ticks : ticks[i].stale

\* C12: applying a result without any optional field raises nothing and
\* leaves feedback "Tracking...", stage "none", angle 0, no guidance,
\* validity valid, the no-person counter at 0 and the overlay clear; the
\* debouncer speaks nothing and keeps its refs.
C12_EmptyResultFallsBack ==
    [][\A i \in DOMAIN ticks :
          AnalyzeResolved(i, EmptyData)
          => /\ error' = ""
             /\ feedback' = Tracking
             /\ stage' = "none"
             /\ angle' = 0
             /\ lastGuidance' = ""
             /\ isValid' = "true"
             /\ noPoseCountRef' = 0
             /\ canvas' = ClearCanvas
             /\ \A k \in DOMAIN spoken' : spoken'[k].by # "voice"
             /\ UNCHANGED voiceRefs]_vars

\* C12 witness: in a session whose earlier result reported MaxReps reps,
\* the last applied result carried no count, texts, angle or drawable
\* landmarks: the fallbacks are displayed and the overlay is clear.
C12_Witness ==
    /\ sessionStarted
    /\ lastReported = MaxReps
    /\ reps = 0
    /\ feedback = Tracking /\ stage = "none" /\ angle = 0
    /\ lastGuidance = "" /\ isValid = "true" /\ error = ""
    /\ noPoseCountRef = 0 /\ canvas = ClearCanvas

\* C13: after drawSkeleton has run on a landmark array, the segments on the
\* canvas are exactly the pairs of Connections whose two endpoints are
\* present in the array, and nothing of the earlier drawing is left; with
\* index 13 missing and 12 and 14 present, [12,14] is among them and
\* [11,13] and [13,15] are not.
C13_SegmentsOfPresentPairs ==
    [][\A i \in DOMAIN ticks : \A d \in OverlayData :
          ( /\ AnalyzeResolved(i, d)
            /\ d.landmarks # NoLandmarks
            /\ ~IsNoPerson(d.warning) )
          => /\ canvas'.segs =
                   {c \in Connections : /\ Present(d.landmarks, c[1])
                                        /\ Present(d.landmarks, c[2])}
             /\ canvas'.points \subseteq 0 .. (d.landmarks.len - 1)
             /\ ( /\ ~Present(d.landmarks, 13)
                  /\ Present(d.landmarks, 12) /\ Present(d.landmarks, 14) )
                => /\ <<12, 14>> \in canvas'.segs
                   /\ <<11, 13>> \notin canvas'.segs
                   /\ <<13, 15>> \notin canvas'.segs]_vars

\* C14: a result of the running session sets the displayed rep count to its
\* reps, else to its count, else leaves it as it is displayed.
C14_RepsFallBackToDisplayed ==
    [][\A i \in DOMAIN ticks : \A d \in CountData :
          ( /\ AnalyzeResolved(i, d)
            /\ sessionStarted /\ ~ticks[i].stale )
          => reps' = IF d.reps # NoNum THEN d.reps
                     ELSE IF d.count # NoNum THEN d.count
                     ELSE reps]_vars

\* C15: the in-flight guard is set only while an analyzeFrame request is
\* outstanding: once the request has resolved, with a result, with nothing
\* or with a failure, the guard is clear.
C15_GuardOnlyWhileInFlight == isProcessingRef => InFlight # {}

\* The debouncer's refs as handleVoiceOutput reads them.
VoiceRefs ==
    [lastSpoken |-> lastSpokenRef, lastVoiceTime |-> lastVoiceTimeRef,
     stage |-> stageRef, reps |-> repsRef]

\* The utterances of handleVoiceOutput among those of a step.
ByVoice(said) == {k \in DOMAIN said : said[k].by = "voice"}

\* C16: handleVoiceOutput speaks at most once per call; when the result both
\* completes a rep and changes the stage to a label other than "none", both
\* refs are advanced, and what is spoken, if anything, is the stage label,
\* which is spoken unless it is the message spoken last.
C16_StageOverwritesRep ==
    [][/\ Cardinality(ByVoice(spoken')) <= 1
       /\ \A i \in DOMAIN ticks : \A d \in VoiceData :
             ( /\ ~IsNoPerson(d.warning)
               /\ VoiceRepDue(d, NewReps(d, ticks[i].reps), VoiceRefs)
               /\ VoiceStageDue(d, VoiceRefs)
               /\ AnalyzeResolved(i, d) )
             => /\ repsRef' = NewReps(d, ticks[i].reps)
                /\ stageRef' = d.stage
                /\ \A k \in ByVoice(spoken') :
                       spoken'[k].msg = Text(d.stage)
                /\ Text(d.stage) # lastSpokenRef
                       => ByVoice(spoken') # {}]_vars

\* C16 witness: the debouncer has just spoken for the first time, a stage
\* label, and its rep count is already above 0: the rep completed by the
\* same result was not announced.
C16_Witness ==
    /\ spoken # <<>>
    /\ spoken[1] = [by |-> "voice", msg |-> Text(stageRef)]
    /\ voiced = NoMessage
    /\ repsRef > 0

\* The same handlers on results that carry the no-person warning or not,
\* with the clock running, a fixed positive target and no second click on
\* the start button while the first is pending.
NextPrompt ==
    \/ ClockAdvance
    \/ StartOnce
    \/ StartSessionResolved
    \/ StartSessionRejected
    \/ EndClick
    \/ EndSessionResolved
    \/ EndSessionRejected
    \/ Tick
    \/ AnalyzeFailed
    \/ AnalyzeEmpty
    \/ AnalyzePrompt
    \/ AutoEndResolved
    \/ AutoEndRejected

SpecPrompt == InitVoice /\ [][NextPrompt]_vars

\* C17: a result of the running session that carries the no-person warning,
\* at least 5 seconds after the last spoken message, with no rep completed
\* and no stage change, makes the step speak "Please move into the camera
\* frame", unless that was the message spoken last.
C17_NoPersonPromptSpoken ==
    [][\A i \in DOMAIN ticks : \A d \in PromptData :
          ( /\ AnalyzeResolved(i, d)
            /\ sessionStarted /\ ~ticks[i].stale
            /\ IsNoPerson(d.warning)
            /\ (now - lastVoiceTimeRef) * VoiceGapMs >= VoiceGapMs
            /\ ~VoiceRepDue(d, NewReps(d, ticks[i].reps), VoiceRefs)
            /\ ~VoiceStageDue(d, VoiceRefs)
            /\ lastSpokenRef # MoveIntoFrame /\ LastHeard # MoveIntoFrame )
          => \E k \in DOMAIN spoken' : spoken'[k].msg = MoveIntoFrame]_vars

\* C18: a response to a request issued before the last start, applied in the
\* session that start began, leaves that session's rep count, stage and
\* validity as they are, speaks no completion message and makes no
\* endSessionAPI call.
C18_EarlierResponseHarmless ==
    [][\A i \in DOMAIN ticks : \A d \in OverlayData :
          ( /\ AnalyzeResolved(i, d)
            /\ ticks[i].stale
            /\ sessionStarted )
          => /\ UNCHANGED <<reps, stage, isValid>>
             /\ \A k \in DOMAIN spoken' : spoken'[k].by # "autostop"
             /\ UNCHANGED <<autoEndedRef, endPending>>
             /\ \A j \in DOMAIN ticks' : ticks'[j].pc # "end"]_vars

\* C19: while the session is started, counted from the moment it became
\* started, endSessionAPI is called at most once, by the button and the
\* auto-stop together.
C19_EndCalledOncePerSession == endCalls <= 1

\* C20: between two starts the debouncer's rep count never decreases, and
\* every "Rep N completed" spoken has a number above that of the one spoken
\* before it in the session.
C20_RepNumbersIncrease ==
    [][/\ handleStartResume \/ repsRef' >= repsRef
       /\ \A k \in DOMAIN spoken' :
             spoken'[k].msg.t = "rep"
             => /\ spoken'[k].msg.n > lastAnnounced
                /\ spoken'[k].msg.n > repsRef
                /\ repsRef' = spoken'[k].msg.n]_vars

\* C20 witness: "Rep MaxReps completed" is spoken in a session in which
\* "Rep 1 completed" was the debouncer's utterance before it and the
\* reported counts did not only go up.
C20_Witness ==
    /\ sessionStarted
    /\ spoken # <<>>
    /\ spoken[1] = [by |-> "voice", msg |-> RepCompleted(MaxReps)]
    /\ voiced = RepCompleted(1)
    /\ lastReported = Broken
====
